---- MODULE Spec2Model ----
(***************************************************************************)
(* DELTA Cloud Service (src/streamlit_app.py): the FastAPI backend.        *)
(*                                                                         *)
(*   POST /cad/generate   generate_cad: temporary workspace, script        *)
(*                        rewriting, bounded subprocess run, artifact      *)
(*                        detection, base64 encoding, error classification *)
(*   GET  /health         health: probe of the build123d import            *)
(*                                                                         *)
(* Text is a sequence of characters (one-character strings); the script    *)
(* text is a sequence of tokens, a token being a quote character, the      *)
(* file name output.stl, the directory prefix of a workspace, or any       *)
(* other character.  Bytes are integers 0..255.  An Optional value is the  *)
(* empty sequence (None) or a one-element sequence (the value).            *)
(***************************************************************************)
EXTENDS Integers, Sequences, FiniteSets, TLC

VARIABLES
    pc,         \* pc[r]: position of request r inside generate_cad
    code,       \* code[r]: request.code, the script text received
    tmpdir,     \* tmpdir[r]: the directory bound by the with statement
    fs,         \* the temporary directories on disk and their two files
    proc,       \* proc[r]: the child process started by subprocess.run
    elapsed,    \* elapsed[r]: seconds subprocess.run has been waiting
    spawns,     \* spawns[r]: child processes started for request r
    exitPath,   \* exitPath[r]: the return statement (or raise) taken
    result,     \* result[r]: what generate_cad hands to the framework
    lib,        \* state of the build123d installation in the environment
    imported,   \* build123d is in sys.modules of the server process
    healthOut   \* outcome of the last call of health()

vars == <<pc, code, tmpdir, fs, proc, elapsed, spawns, exitPath, result,
          lib, imported, healthOut>>
cadVars == <<pc, code, tmpdir, fs, proc, elapsed, spawns, exitPath, result>>
healthVars == <<lib, imported, healthOut>>

----------------------------------------------------------------------------
(* Bounds of the model and constants of the program                        *)

Requests == {"r1", "r2"}

\* subprocess.run(..., timeout=45)
TIMEOUT == 45

\* result.stderr[:500]
ErrLimit == 500

\* longest script text, in tokens, the rewriting is checked on
MaxLen == 6

\* longest artifact, in bytes, a script writes
MaxBytes == 3

\* characters of standard error beyond the 500 kept
MaxExtra == 2

Min(a, b) == IF a < b THEN a ELSE b

----------------------------------------------------------------------------
(* Optional values                                                         *)

None == << >>
Some(x) == << x >>

----------------------------------------------------------------------------
(* Script text                                                             *)

SQ == "'"
DQ == "\""
OUT == "output.stl"
ANYCHAR == "x"

\* tempfile.TemporaryDirectory() names: each token is the directory path
\* followed by the separator os.path.join adds
Dirs == {"/tmp/tmpa/", "/tmp/tmpb/"}
NoDir == "none"

Tokens == {SQ, DQ, OUT, ANYCHAR}

RECURSIVE TextsOfLen(_)
TextsOfLen(n) ==
    IF n = 0 THEN { << >> }
    ELSE { <<t>> \o s : t \in Tokens, s \in TextsOfLen(n - 1) }

AllCodes == UNION { TextsOfLen(n) : n \in 0..MaxLen }

\* the scripts of the full pipeline: one naming the artifact in single
\* quotes, one in double quotes, one that does not name it at all
Codes == { <<ANYCHAR, SQ, OUT, SQ>>, <<DQ, OUT, DQ>>, <<ANYCHAR>> }

\* str.replace(old, new): the non-overlapping occurrences, left to right
RECURSIVE Replace(_, _, _)
Replace(s, old, new) ==
    IF Len(s) < Len(old) THEN s
    ELSE IF SubSeq(s, 1, Len(old)) = old
         THEN new \o Replace(SubSeq(s, Len(old) + 1, Len(s)), old, new)
         ELSE <<Head(s)>> \o Replace(Tail(s), old, new)

\* f"'{output_path}'" and f'"{output_path}"' with
\* output_path = os.path.join(tmpdir, "output.stl")
output_path(d, q) == <<q, d, OUT, q>>

\* faulty variant: the double-quoted literal is left alone (as line 249)
RewriteSingleOnly(c, d) == Replace(c, <<SQ, OUT, SQ>>, output_path(d, SQ))

\* lines 86-87
Rewrite(c, d) ==
    Replace(Replace(c, <<SQ, OUT, SQ>>, output_path(d, SQ)),
            <<DQ, OUT, DQ>>, output_path(d, DQ))

\* the places where a literal <<q, OUT, q>> starts in s
Occurrences(s, q) ==
    { i \in 1..(Len(s) - 2) : SubSeq(s, i, i + 2) = <<q, OUT, q>> }

HasLiteral(s) == Occurrences(s, SQ) # {} \/ Occurrences(s, DQ) # {}

\* two occurrences of a literal sharing a quote character
HasOverlap(s) ==
    \E q \in {SQ, DQ} : \E i \in Occurrences(s, q) : (i + 2) \in Occurrences(s, q)

\* the workspace directories a script names as the place of its artifact
Targets(s) ==
    { d \in Dirs : \E q \in {SQ, DQ} : \E i \in 1..(Len(s) - 3) :
                      SubSeq(s, i, i + 3) = output_path(d, q) }

\* the text without the directory prefixes
RECURSIVE StripDirs(_)
StripDirs(s) ==
    IF s = << >> THEN << >>
    ELSE IF Head(s) \in Dirs THEN StripDirs(Tail(s))
         ELSE <<Head(s)>> \o StripDirs(Tail(s))

----------------------------------------------------------------------------
(* Standard error, standard output, messages                               *)

StderrChars == <<"a", "b", "c">>

TextOfLen(n) == [i \in 1..n |-> StderrChars[(i % 3) + 1]]

StderrLens ==
    {0, 1, ErrLimit - 1, ErrLimit} \cup { ErrLimit + k : k \in 1..MaxExtra }

StderrTexts == { TextOfLen(n) : n \in StderrLens }

StdoutTexts == { << >>, <<"o", "k">> }

ExitCodes == {0, 1, -9}

\* the short inputs of the runs with two handlers side by side
ShortStderrTexts == { TextOfLen(1), TextOfLen(2) }

\* faulty variant: the whole standard error
TruncateNone(s) == s

\* result.stderr[:500]
Truncate(s) == SubSeq(s, 1, Min(Len(s), ErrLimit))

\* "Fichier STL non généré"
MsgNoStl ==
    <<"F", "i", "c", "h", "i", "e", "r", " ", "S", "T", "L", " ",
      "n", "o", "n", " ", "g", "é", "n", "é", "r", "é">>

\* "Timeout (>45s)"
MsgTimeout ==
    <<"T", "i", "m", "e", "o", "u", "t", " ", "(", ">", "4", "5", "s", ")">>

\* str(e) of the faults of the environment
MsgMkdtemp == <<"E", "N", "O", "S", "P", "C">>
MsgWrite == <<"E", "I", "O">>
MsgSpawn == <<"E", "A", "G", "A", "I", "N">>
MsgRead == <<"E", "A", "C", "C", "E", "S">>

----------------------------------------------------------------------------
(* base64.b64encode                                                        *)

B64Alphabet ==
    <<"A", "B", "C", "D", "E", "F", "G", "H", "I", "J", "K", "L", "M",
      "N", "O", "P", "Q", "R", "S", "T", "U", "V", "W", "X", "Y", "Z",
      "a", "b", "c", "d", "e", "f", "g", "h", "i", "j", "k", "l", "m",
      "n", "o", "p", "q", "r", "s", "t", "u", "v", "w", "x", "y", "z",
      "0", "1", "2", "3", "4", "5", "6", "7", "8", "9", "+", "/">>

B64Char(n) == B64Alphabet[n + 1]

B64Index(c) == (CHOOSE i \in 1..64 : B64Alphabet[i] = c) - 1

\* faulty variant: the last group is not padded
RECURSIVE B64EncodeNoPad(_)
B64EncodeNoPad(b) ==
    IF Len(b) = 0 THEN << >>
    ELSE IF Len(b) = 1
         THEN <<B64Char(b[1] \div 4), B64Char((b[1] % 4) * 16)>>
    ELSE IF Len(b) = 2
         THEN <<B64Char(b[1] \div 4),
                B64Char((b[1] % 4) * 16 + (b[2] \div 16)),
                B64Char((b[2] % 16) * 4)>>
    ELSE <<B64Char(b[1] \div 4),
           B64Char((b[1] % 4) * 16 + (b[2] \div 16)),
           B64Char((b[2] % 16) * 4 + (b[3] \div 64)),
           B64Char(b[3] % 64)>> \o B64EncodeNoPad(SubSeq(b, 4, Len(b)))

\* base64.b64encode(stl_bytes).decode('utf-8'): three bytes give four
\* characters of the alphabet, a last group of one or two bytes is padded
RECURSIVE b64encode(_)
b64encode(b) ==
    IF Len(b) = 0 THEN << >>
    ELSE IF Len(b) = 1
         THEN <<B64Char(b[1] \div 4), B64Char((b[1] % 4) * 16), "=", "=">>
    ELSE IF Len(b) = 2
         THEN <<B64Char(b[1] \div 4),
                B64Char((b[1] % 4) * 16 + (b[2] \div 16)),
                B64Char((b[2] % 16) * 4), "=">>
    ELSE <<B64Char(b[1] \div 4),
           B64Char((b[1] % 4) * 16 + (b[2] \div 16)),
           B64Char((b[2] % 16) * 4 + (b[3] \div 64)),
           B64Char(b[3] % 64)>> \o b64encode(SubSeq(b, 4, Len(b)))

\* the decoding a client applies to stl_data; a text that is no base64
\* text (length not a multiple of four) decodes to nothing
RECURSIVE b64decode(_)
b64decode(t) ==
    IF Len(t) = 0 THEN Some(<< >>)
    ELSE IF Len(t) < 4 THEN None
    ELSE LET a == B64Index(t[1])
             b == B64Index(t[2])
             first == (a * 4 + (b \div 16)) % 256
         IN IF t[3] = "=" /\ t[4] = "="
            THEN IF Len(t) = 4 THEN Some(<<first>>) ELSE None
            ELSE LET c == B64Index(t[3])
                     second == ((b % 16) * 16 + (c \div 4)) % 256
                 IN IF t[4] = "="
                    THEN IF Len(t) = 4 THEN Some(<<first, second>>) ELSE None
                    ELSE LET d == B64Index(t[4])
                             third == ((c % 4) * 64 + d) % 256
                             rest == b64decode(SubSeq(t, 5, Len(t)))
                         IN IF rest = None THEN None
                            ELSE Some(<<first, second, third>> \o rest[1])

\* the artifacts a script writes: every length up to MaxBytes, bytes that
\* exercise each of the four sextets
ByteAt(i) == <<255, 0, 77, 130, 63, 192>>[((i - 1) % 6) + 1]

Artifacts == { [i \in 1..n |-> ByteAt(i)] : n \in 0..MaxBytes }

ShortArtifacts == { <<ByteAt(1)>>, <<ByteAt(3)>> }

----------------------------------------------------------------------------
(* The values generate_cad and health produce                              *)

\* class CADResponse(BaseModel): success, stl_data = None, error = None
CADResponse(s, d, e) ==
    [kind |-> "response", success |-> s, stl_data |-> d, error |-> e,
     exc |-> None]

\* an exception leaving the handler, with str(e)
Raised(msg) ==
    [kind |-> "exception", success |-> FALSE, stl_data |-> None,
     error |-> None, exc |-> Some(msg)]

NoResult ==
    [kind |-> "none", success |-> FALSE, stl_data |-> None, error |-> None,
     exc |-> None]

\* faulty variant: the message is dropped
FailureWithoutError(msg) == CADResponse(FALSE, None, None)

\* CADResponse(success=False, error=...)
Failure(msg) == CADResponse(FALSE, None, Some(msg))

\* CADResponse(success=True, stl_data=stl_b64)
Success(b64) == CADResponse(TRUE, Some(b64), None)

----------------------------------------------------------------------------
(* The file system and the child process                                   *)

NoEntry == [exists |-> FALSE, model_py |-> None, output_stl |-> None]

NoProc ==
    [state |-> "none", script |-> << >>, rc |-> 0, stdout |-> << >>,
     stderr |-> << >>, wrote |-> None]

\* faulty variant: a name that may be in use
mkdtempAnyName(f) == Dirs

\* tempfile.mkdtemp: a name that does not exist yet
mkdtemp(f) == { d \in Dirs : ~f[d].exists }

\* faulty variant: nothing is removed
rmtreeKeepsDir(f, d) == f

\* TemporaryDirectory.cleanup at the end of the with block: the directory
\* and everything in it
rmtree(f, d) == [f EXCEPT ![d] = NoEntry]

\* faulty variant: the child is left running
KillNot(p) == p

\* subprocess.run on TimeoutExpired: process.kill() and process.wait()
Kill(p) == [p EXCEPT !.state = "killed"]

\* faulty variant: the artifact is opened without the check of line 106
ClassifyIgnoringArtifact(rc, present) ==
    IF rc # 0 THEN "nonzero" ELSE "read"

\* lines 100 and 106: the exit code first, then the artifact
Classify(rc, present) ==
    IF rc # 0 THEN "nonzero"
    ELSE IF ~present THEN "missing"
    ELSE "read"

----------------------------------------------------------------------------
(* Initial state                                                           *)

Init ==
    /\ pc = [r \in Requests |-> "idle"]
    /\ code = [r \in Requests |-> << >>]
    /\ tmpdir = [r \in Requests |-> NoDir]
    /\ fs = [d \in Dirs |-> NoEntry]
    /\ proc = [r \in Requests |-> NoProc]
    /\ elapsed = [r \in Requests |-> 0]
    /\ spawns = [r \in Requests |-> 0]
    /\ exitPath = [r \in Requests |-> "none"]
    /\ result = [r \in Requests |-> NoResult]
    /\ lib = "ok"
    /\ imported = FALSE
    /\ healthOut = [kind |-> "none", status |-> "", cad |-> ""]

----------------------------------------------------------------------------
(* generate_cad, request r                                                 *)

\* the handler leaves the try block or the with block with `res`
Leave(r, res, path) ==
    /\ result' = [result EXCEPT ![r] = res]
    /\ exitPath' = [exitPath EXCEPT ![r] = path]
    /\ pc' = [pc EXCEPT ![r] = "cleanup"]

Accept(r, c) ==
    /\ pc' = [pc EXCEPT ![r] = "mkdtemp"]
    /\ code' = [code EXCEPT ![r] = c]
    /\ UNCHANGED <<tmpdir, fs, proc, elapsed, spawns, exitPath, result>>
    /\ UNCHANGED healthVars

\* line 77, async def: the handler runs on the event loop of the one
\* uvicorn server (line 141) and never awaits, so the loop starts it only
\* when no other handler is running
EventLoopFree(r) == \A s \in Requests \ {r} : pc[s] = "idle"

\* line 77: a request arrives
Receive(r) ==
    pc[r] = "idle" /\ EventLoopFree(r) /\ \E c \in Codes : Accept(r, c)

\* line 77, any script text up to MaxLen tokens
ReceiveAny(r) ==
    pc[r] = "idle" /\ EventLoopFree(r) /\ \E c \in AllCodes : Accept(r, c)

\* line 77, handlers running side by side (several workers, or the
\* handler moved off the event loop)
ReceiveConcurrent(r) == pc[r] = "idle" /\ \E c \in Codes : Accept(r, c)

\* line 81: with tempfile.TemporaryDirectory() as tmpdir
CreateWorkspace(r) ==
    /\ pc[r] = "mkdtemp"
    /\ \/ \E d \in mkdtemp(fs) :
             /\ tmpdir' = [tmpdir EXCEPT ![r] = d]
             /\ fs' = [fs EXCEPT ![d].exists = TRUE]
             /\ pc' = [pc EXCEPT ![r] = "prepare"]
             /\ UNCHANGED <<exitPath, result>>
       \/ \* the directory cannot be created: nothing catches the error
          /\ result' = [result EXCEPT ![r] = Raised(MsgMkdtemp)]
          /\ exitPath' = [exitPath EXCEPT ![r] = "raise_mkdtemp"]
          /\ pc' = [pc EXCEPT ![r] = "raised"]
          /\ UNCHANGED <<tmpdir, fs>>
    /\ UNCHANGED <<code, proc, elapsed, spawns>>
    /\ UNCHANGED healthVars

\* lines 82-90: the paths, the rewriting, the script file
PrepareScript(r) ==
    /\ pc[r] = "prepare"
    /\ \/ /\ fs' = [fs EXCEPT ![tmpdir[r]].model_py =
                                 Some(Rewrite(code[r], tmpdir[r]))]
          /\ pc' = [pc EXCEPT ![r] = "spawn"]
          /\ UNCHANGED <<exitPath, result>>
       \/ \* open or write fails, outside the try block; the file may
          \* have been created empty
          /\ \E f \in {None, Some(<< >>)} :
                fs' = [fs EXCEPT ![tmpdir[r]].model_py = f]
          /\ Leave(r, Raised(MsgWrite), "raise_write")
    /\ UNCHANGED <<code, tmpdir, proc, elapsed, spawns>>
    /\ UNCHANGED healthVars

\* lines 93-98: subprocess.run starts the child, which loads the script
Spawn(r) ==
    /\ pc[r] = "spawn"
    /\ \/ /\ proc' = [proc EXCEPT ![r] =
                        [NoProc EXCEPT !.state = "alive",
                                       !.script = fs[tmpdir[r]].model_py[1]]]
          /\ spawns' = [spawns EXCEPT ![r] = @ + 1]
          /\ elapsed' = [elapsed EXCEPT ![r] = 0]
          /\ pc' = [pc EXCEPT ![r] = "wait"]
          /\ UNCHANGED <<exitPath, result>>
       \/ \* the interpreter cannot be started: except Exception
          /\ Leave(r, Failure(MsgSpawn), "except")
          /\ UNCHANGED <<proc, spawns, elapsed>>
    /\ UNCHANGED <<code, tmpdir, fs>>
    /\ UNCHANGED healthVars

\* the child writes its artifact to the path its script names
ChildWrites(r, artifacts) ==
    /\ proc[r].state = "alive"
    /\ \E d \in Targets(proc[r].script), b \in artifacts :
          /\ fs[d].exists
          /\ fs' = [fs EXCEPT ![d].output_stl = Some(b)]
          /\ proc' = [proc EXCEPT ![r].wrote = Some(b)]
    /\ UNCHANGED <<pc, code, tmpdir, elapsed, spawns, exitPath, result>>
    /\ UNCHANGED healthVars

ChildWrite(r) == ChildWrites(r, Artifacts)

ChildWriteShort(r) == ChildWrites(r, ShortArtifacts)

\* the child ends by itself
ChildExits(r, codes, outs, errs) ==
    /\ proc[r].state = "alive"
    /\ \E rc \in codes, out \in outs, err \in errs :
          proc' = [proc EXCEPT ![r].state = "exited", ![r].rc = rc,
                               ![r].stdout = out, ![r].stderr = err]
    /\ elapsed' = [elapsed EXCEPT ![r] = 0]
    /\ UNCHANGED <<pc, code, tmpdir, fs, spawns, exitPath, result>>
    /\ UNCHANGED healthVars

ChildExit(r) == ChildExits(r, ExitCodes, StdoutTexts, StderrTexts)

ChildExitShort(r) == ChildExits(r, {0, 1}, { << >> }, ShortStderrTexts)

\* one second passes for every subprocess.run that waits
Tick ==
    /\ \E r \in Requests : proc[r].state = "alive"
    /\ \A r \in Requests : proc[r].state = "alive" => elapsed[r] < TIMEOUT
    /\ elapsed' = [r \in Requests |->
                     IF proc[r].state = "alive" THEN elapsed[r] + 1
                     ELSE elapsed[r]]
    /\ UNCHANGED <<pc, code, tmpdir, fs, proc, spawns, exitPath, result>>
    /\ UNCHANGED healthVars

\* lines 124-128: the timeout of subprocess.run expires
RunTimeout(r) ==
    /\ pc[r] = "wait"
    /\ proc[r].state = "alive"
    /\ elapsed[r] = TIMEOUT
    /\ proc' = [proc EXCEPT ![r] = Kill(proc[r])]
    /\ Leave(r, Failure(MsgTimeout), "timeout")
    /\ UNCHANGED <<code, tmpdir, fs, elapsed, spawns>>
    /\ UNCHANGED healthVars

\* lines 100-110: subprocess.run returns the completed process
RunReturn(r) ==
    /\ pc[r] = "wait"
    /\ proc[r].state = "exited"
    /\ LET way == Classify(proc[r].rc, fs[tmpdir[r]].output_stl # None)
       IN \/ /\ way = "nonzero"
             /\ Leave(r, Failure(Truncate(proc[r].stderr)), "nonzero")
          \/ /\ way = "missing"
             /\ Leave(r, Failure(MsgNoStl), "missing")
          \/ /\ way = "read"
             /\ pc' = [pc EXCEPT ![r] = "read"]
             /\ UNCHANGED <<exitPath, result>>
    /\ UNCHANGED <<code, tmpdir, fs, proc, elapsed, spawns>>
    /\ UNCHANGED healthVars

\* lines 112-122: read the artifact, encode it, answer
ReadArtifact(r) ==
    /\ pc[r] = "read"
    /\ \/ /\ fs[tmpdir[r]].output_stl # None
          /\ Leave(r, Success(b64encode(fs[tmpdir[r]].output_stl[1])), "ok")
       \/ \* open or read fails: except Exception
          /\ Leave(r, Failure(MsgRead), "except")
    /\ UNCHANGED <<code, tmpdir, fs, proc, elapsed, spawns>>
    /\ UNCHANGED healthVars

\* the end of the with block, on a return and on an exception alike
Cleanup(r) ==
    /\ pc[r] = "cleanup"
    /\ fs' = rmtree(fs, tmpdir[r])
    /\ tmpdir' = [tmpdir EXCEPT ![r] = NoDir]
    /\ pc' = [pc EXCEPT ![r] =
                IF result[r].kind = "exception" THEN "raised" ELSE "returned"]
    /\ UNCHANGED <<code, proc, elapsed, spawns, exitPath, result>>
    /\ UNCHANGED healthVars

\* the framework has sent the answer; the slot serves the next request
Finish(r) ==
    /\ pc[r] \in {"returned", "raised"}
    /\ pc' = [pc EXCEPT ![r] = "idle"]
    /\ code' = [code EXCEPT ![r] = << >>]
    /\ proc' = [proc EXCEPT ![r] = NoProc]
    /\ spawns' = [spawns EXCEPT ![r] = 0]
    /\ exitPath' = [exitPath EXCEPT ![r] = "none"]
    /\ result' = [result EXCEPT ![r] = NoResult]
    /\ elapsed' = [elapsed EXCEPT ![r] = 0]
    /\ UNCHANGED <<tmpdir, fs>>
    /\ UNCHANGED healthVars

----------------------------------------------------------------------------
(* health and the environment of the import                                *)

LibStates == {"ok", "absent", "broken"}

\* import build123d: a module already in sys.modules is not loaded again;
\* otherwise the installed package is loaded, a missing one raises
\* ImportError, and one whose loading fails raises whatever it raises
Import(l, imp) ==
    IF imp \/ l = "ok" THEN "loaded"
    ELSE IF l = "absent" THEN "ImportError"
    ELSE "Exception"

\* lines 71-74
HealthResponse(cad) ==
    [kind |-> "response",
     status |-> IF cad = "ready" THEN "healthy" ELSE "degraded",
     cad |-> cad]

\* lines 60-74
health ==
    /\ LET outcome == Import(lib, imported)
       IN \/ /\ outcome = "loaded"
             /\ imported' = TRUE
             /\ healthOut' = HealthResponse("ready")
          \/ /\ outcome = "ImportError"
             /\ healthOut' = HealthResponse("missing")
             /\ UNCHANGED imported
          \/ \* except ImportError does not catch it
             /\ outcome = "Exception"
             /\ healthOut' = [kind |-> "exception", status |-> "", cad |-> ""]
             /\ UNCHANGED imported
    /\ UNCHANGED lib
    /\ UNCHANGED cadVars

\* lines 159-164: the dashboard imports build123d under a bare except
Dashboard ==
    /\ Import(lib, imported) = "loaded"
    /\ ~imported
    /\ imported' = TRUE
    /\ UNCHANGED <<lib, healthOut>>
    /\ UNCHANGED cadVars

\* the package is installed, removed or broken while the server runs
EnvChange ==
    /\ \E l \in LibStates \ {lib} : lib' = l
    /\ UNCHANGED <<imported, healthOut>>
    /\ UNCHANGED cadVars

generate_cad(r) ==
    \/ Receive(r)
    \/ CreateWorkspace(r)
    \/ PrepareScript(r)
    \/ Spawn(r)
    \/ ChildWrite(r)
    \/ ChildExit(r)
    \/ RunTimeout(r)
    \/ RunReturn(r)
    \/ ReadArtifact(r)
    \/ Cleanup(r)
    \/ Finish(r)

Next == Tick \/ \E r \in Requests : generate_cad(r)

Spec == Init /\ [][Next]_vars

\* the readiness query beside the generation requests
NextHealth == health \/ Dashboard \/ EnvChange \/ Next

SpecHealth == Init /\ [][NextHealth]_vars

\* two handlers side by side, on short inputs
NextConcurrent ==
    \/ Tick
    \/ \E r \in Requests :
          \/ ReceiveConcurrent(r)
          \/ CreateWorkspace(r)
          \/ PrepareScript(r)
          \/ Spawn(r)
          \/ ChildWriteShort(r)
          \/ ChildExitShort(r)
          \/ RunTimeout(r)
          \/ RunReturn(r)
          \/ ReadArtifact(r)
          \/ Cleanup(r)
          \/ Finish(r)

SpecConcurrent == Init /\ [][NextConcurrent]_vars

\* the first steps of the handler on every script text up to MaxLen
NextRewrite ==
    \E r \in Requests :
        \/ ReceiveAny(r)
        \/ CreateWorkspace(r)
        \/ PrepareScript(r)
        \/ Cleanup(r)
        \/ Finish(r)

SpecRewrite == Init /\ [][NextRewrite]_vars

----------------------------------------------------------------------------
(* Properties                                                              *)

Live(r) == pc[r] \in {"prepare", "spawn", "wait", "read", "cleanup"}
Left(r) == pc[r] \in {"cleanup", "returned"}
Answered(r) == pc[r] \in {"returned", "raised"}

\* e is the first n characters of s, or all of s when s is shorter
IsPrefixUpTo(e, s, n) ==
    /\ Len(e) = Min(Len(s), n)
    /\ \A i \in 1..Len(e) : e[i] = s[i]

IsFailureWith(res, msg) ==
    /\ res.kind = "response"
    /\ res.success = FALSE
    /\ res.stl_data = None
    /\ res.error = Some(msg)

\* C1: generate_cad never raises: no request ever ends with an exception
\* leaving the handler, whatever step of the pipeline faults.
C1_NeverRaises ==
    \A r \in Requests : result[r].kind # "exception" /\ pc[r] # "raised"

\* C2: once the handler has returned or raised, the workspace of the
\* request and everything in it are gone: the only directories on disk
\* are those of handlers still inside their with block, and a directory
\* that is gone holds no file.
C2_WorkspaceRemoved ==
    /\ \A r \in Requests : (Answered(r) \/ pc[r] = "idle") => tmpdir[r] = NoDir
    /\ \A d \in Dirs :
          fs[d].exists => \E r \in Requests : Live(r) /\ tmpdir[r] = d
    /\ \A d \in Dirs : ~fs[d].exists => fs[d] = NoEntry

C2_Witness ==
    \E r \in Requests :
        /\ pc[r] = "returned"
        /\ exitPath[r] = "timeout"
        /\ proc[r].wrote # None
        /\ \A d \in Dirs : fs[d] = NoEntry

\* C3: every result returned is success with stl_data and without error,
\* or failure with error (a text, possibly empty) and without stl_data.
C3_TwoShapes ==
    \A r \in Requests :
        result[r].kind = "response" =>
            \/ /\ result[r].success
               /\ result[r].stl_data # None
               /\ result[r].error = None
            \/ /\ ~result[r].success
               /\ result[r].error # None
               /\ result[r].stl_data = None

C3_Witness ==
    \E r \in Requests :
        /\ pc[r] = "returned"
        /\ ~result[r].success
        /\ result[r].error = Some(<< >>)

\* C4: a child that ended by itself with a non-zero exit code gives
\* success=false with the first 500 characters of its standard error,
\* whatever its standard output and whether or not the artifact exists;
\* the artifact is not read.
C4_NonZeroExit ==
    \A r \in Requests :
        (proc[r].state = "exited" /\ proc[r].rc # 0) =>
            /\ pc[r] # "read"
            /\ Left(r) =>
                 /\ result[r].kind = "response"
                 /\ ~result[r].success
                 /\ result[r].stl_data = None
                 /\ result[r].error # None
                 /\ IsPrefixUpTo(result[r].error[1], proc[r].stderr, ErrLimit)

C4_Witness ==
    \E r \in Requests :
        /\ pc[r] = "cleanup"
        /\ proc[r].state = "exited"
        /\ proc[r].rc # 0
        /\ Len(proc[r].stderr) > ErrLimit
        /\ proc[r].stdout # << >>
        /\ fs[tmpdir[r]].output_stl # None
        /\ Len(result[r].error[1]) = ErrLimit

\* C5: a child that ended by itself with exit code zero and left no
\* artifact gives success=false with the fixed message, whatever its
\* standard output and standard error.
C5_MissingArtifact ==
    \A r \in Requests :
        (proc[r].state = "exited" /\ proc[r].rc = 0) =>
            /\ (pc[r] = "cleanup" /\ fs[tmpdir[r]].output_stl = None)
                  => IsFailureWith(result[r], MsgNoStl)
            /\ (pc[r] = "returned" /\ proc[r].wrote = None)
                  => IsFailureWith(result[r], MsgNoStl)
            /\ (pc[r] = "read") => fs[tmpdir[r]].output_stl # None

C5_Witness ==
    \E r \in Requests :
        /\ pc[r] = "returned"
        /\ proc[r].state = "exited"
        /\ proc[r].rc = 0
        /\ proc[r].wrote = None
        /\ proc[r].stdout # << >>
        /\ Len(proc[r].stderr) > 0
        /\ result[r].error = Some(MsgNoStl)

\* C6: a child still running after 45 seconds is killed and the handler
\* answers success=false with the fixed timeout message; a child is alive
\* only while its handler waits for it, never after the handler left.
C6_Timeout ==
    \A r \in Requests :
        /\ proc[r].state = "alive" => (pc[r] = "wait" /\ elapsed[r] <= TIMEOUT)
        /\ (Left(r) /\ elapsed[r] = TIMEOUT) =>
              /\ proc[r].state = "killed"
              /\ IsFailureWith(result[r], MsgTimeout)
        /\ proc[r].state = "killed" => elapsed[r] = TIMEOUT
        /\ (Left(r) /\ result[r].error = Some(MsgTimeout)) =>
              proc[r].state # "alive"

C6_Witness ==
    \E r \in Requests :
        /\ pc[r] = "returned"
        /\ elapsed[r] = TIMEOUT
        /\ proc[r].state = "killed"
        /\ result[r].error = Some(MsgTimeout)

\* the script file of request r, once written
ScriptOf(r) == fs[tmpdir[r]].model_py[1]

\* C7 as stated: the script written holds every occurrence replaced, a
\* text with neither literal unchanged, and no remaining occurrence of
\* either literal form.
C7_NoLiteralRemains ==
    \A r \in Requests :
        pc[r] = "spawn" =>
            /\ ~HasLiteral(code[r]) => ScriptOf(r) = code[r]
            /\ ~HasLiteral(ScriptOf(r))

\* C7 amended: the script written is the code with the directory of the
\* workspace inserted into literals and with nothing else changed, each
\* inserted path standing between two quotes of one style; a text with
\* neither literal is unchanged; no literal remains unless the code holds
\* two occurrences sharing a quote character, and a literal that remains
\* begins with the closing quote of a replaced one.
C7_Rewritten ==
    \A r \in Requests :
        pc[r] = "spawn" =>
            LET c == code[r]
                d == tmpdir[r]
                s == ScriptOf(r)
            IN /\ StripDirs(s) = c
               /\ \A i \in 1..Len(s) :
                     s[i] \in Dirs =>
                        /\ s[i] = d
                        /\ i > 1 /\ i + 2 <= Len(s)
                        /\ s[i - 1] \in {SQ, DQ}
                        /\ s[i + 1] = OUT
                        /\ s[i + 2] = s[i - 1]
               /\ ~HasLiteral(c) => s = c
               /\ HasLiteral(c) => Targets(s) = {d}
               /\ ~HasOverlap(c) => ~HasLiteral(s)
               /\ \A q \in {SQ, DQ} : \A i \in Occurrences(s, q) :
                     i > 2 /\ s[i - 2] = d

C7_Witness ==
    \E r \in Requests :
        /\ pc[r] = "spawn"
        /\ code[r] = <<SQ, OUT, SQ, DQ, OUT, DQ>>
        /\ ScriptOf(r) =
              <<SQ, tmpdir[r], OUT, SQ, DQ, tmpdir[r], OUT, DQ>>

C9_HealthNeverFails ==
    /\ healthOut.kind # "exception"
    /\ healthOut.kind = "response" =>
          \/ healthOut.status = "healthy" /\ healthOut.cad = "ready"
          \/ healthOut.status = "degraded" /\ healthOut.cad = "missing"

\* what the child of request r did decides the answer of request r
OwnOutcome(r) ==
    (Left(r) /\ result[r].kind = "response") =>
        /\ (proc[r].state = "exited" /\ proc[r].rc # 0) =>
              /\ result[r].error # None
              /\ IsPrefixUpTo(result[r].error[1], proc[r].stderr, ErrLimit)
        /\ (proc[r].state = "exited" /\ proc[r].rc = 0 /\ proc[r].wrote = None)
              => IsFailureWith(result[r], MsgNoStl)
        /\ (/\ proc[r].state = "exited"
            /\ proc[r].rc = 0
            /\ proc[r].wrote # None
            /\ exitPath[r] # "except") =>
              /\ result[r].success
              /\ result[r].stl_data # None
              /\ b64decode(result[r].stl_data[1]) = proc[r].wrote
        /\ proc[r].state = "killed" => IsFailureWith(result[r], MsgTimeout)

\* the workspace of a request holds its own script and its own artifact
OwnFiles(r) ==
    /\ pc[r] \in {"spawn", "wait", "read"} =>
          /\ fs[tmpdir[r]].exists
          /\ fs[tmpdir[r]].model_py # None
          /\ StripDirs(ScriptOf(r)) = code[r]
          /\ Targets(ScriptOf(r)) \subseteq {tmpdir[r]}
    /\ pc[r] \in {"wait", "read", "cleanup"} =>
          /\ Targets(proc[r].script) \subseteq {tmpdir[r]}
          /\ fs[tmpdir[r]].exists
          /\ fs[tmpdir[r]].output_stl = proc[r].wrote

DistinctWorkspaces ==
    \A r \in Requests : \A s \in Requests \ {r} :
        tmpdir[r] # NoDir => tmpdir[r] # tmpdir[s]

\* C10 as stated, the count of subprocesses: every request answered has
\* started exactly one subprocess.
C10_ExactlyOneSubprocess ==
    \A r \in Requests : pc[r] = "returned" => spawns[r] = 1

\* C10 amended: with handlers side by side, live requests have distinct
\* workspaces, each workspace holds the script and the artifact of its own
\* request until that request's cleanup, each answer follows from the
\* request's own child, and a request starts at most one subprocess:
\* exactly one unless a fault ended it before a child was started.
C10_Isolation ==
    /\ DistinctWorkspaces
    /\ \A r \in Requests :
          /\ OwnFiles(r)
          /\ OwnOutcome(r)
          /\ spawns[r] <= 1
          /\ spawns[r] = 1 <=> proc[r].state # "none"
          /\ pc[r] \in {"wait", "read"} => spawns[r] = 1
          /\ (Left(r) /\ exitPath[r] \in {"nonzero", "missing", "ok", "timeout"})
                => spawns[r] = 1

C10_Witness ==
    \E r \in Requests : \E s \in Requests \ {r} :
        /\ pc[r] = "returned"
        /\ exitPath[r] = "ok"
        /\ pc[s] = "read"
        /\ proc[s].wrote # None
        /\ proc[s].wrote # proc[r].wrote
        /\ fs[tmpdir[s]].output_stl = proc[s].wrote

====
